---- MODULE Spec2Model ----
(***************************************************************************)
(* Model of the number-theoretic core of src/main.py: extended_gcd,        *)
(* find_particular_solution, find_min_t_range, generate_solutions,         *)
(* calculate_window_size, the window computation of create_plot and the    *)
(* control flow of main.  Python exceptions are modelled as tagged         *)
(* results: tag = "ok" for a normal return, otherwise the exception class. *)
(***************************************************************************)
EXTENDS Integers, Sequences, FiniteSets, TLC

VARIABLES a, b, c,            \* the equation a*x + b*y = c (main.py:201-203)
          pc,                 \* position of the caller
          op,                 \* name of the function that was called last
          t_range,            \* argument t_range / main's local t_range
          max_solutions,      \* argument max_solutions / main's local
          target_x, target_y, \* optional arguments of find_min_t_range
          egcd,               \* result of extended_gcd
          ps,                 \* result of find_particular_solution
          tr,                 \* result of find_min_t_range
          gen,                \* result of generate_solutions
          win,                \* result of calculate_window_size / create_plot
          outcome             \* what main reported to the user

vars == <<a, b, c, pc, op, t_range, max_solutions, target_x, target_y,
          egcd, ps, tr, gen, win, outcome>>

\* ------------------------------------------------------------------ bounds
MaxCoef == 4
MaxC == 6
BigC == 60
MaxT == 3
MaxK == 4
MaxTarget == 1
MaxDisplay == 5
FracBits == 12

\* ------------------------------------------------------- program constants
MinRange == 50
RangeBuffer == 5
DefaultWindow == 10
MinDisplay == 5

Coefs == -MaxCoef..MaxCoef
CVals == -MaxC..MaxC
CValsWide == CVals \cup {-BigC, BigC}

\* Python's None and a present optional value
None == <<>>
Some(v) == <<v>>

\* --------------------------------------------------- Python integer helpers
Abs(n) == IF n < 0 THEN -n ELSE n
Max(m, n) == IF m >= n THEN m ELSE n
Min(m, n) == IF m <= n THEN m ELSE n

\* Python's // on ints (floor division); n # 0
FloorDiv(m, n) == IF n > 0 THEN m \div n ELSE (-m) \div (-n)

\* Python's % on ints (the result has the sign of the divisor); n # 0
PyMod(m, n) == m - n * FloorDiv(m, n)

\* math.gcd: the non-negative greatest common divisor, gcd(0, 0) = 0
RECURSIVE GcdNat(_, _)
GcdNat(m, n) == IF n = 0 THEN m ELSE GcdNat(n, m % n)

gcd(m, n) == GcdNat(Abs(m), Abs(n))

\* ------------------------------------------------------------ extended_gcd
RECURSIVE extended_gcd(_, _)
extended_gcd(aa, bb) ==
    IF bb = 0
    THEN <<aa, 1, 0>>
    ELSE LET r == extended_gcd(bb, PyMod(aa, bb))
             d == r[1]
             x1 == r[2]
             y1 == r[3]
         IN <<d, y1, x1 - FloorDiv(aa, bb) * y1>>

\* ------------------------------------------------ find_particular_solution
PsRaise(e) == [tag |-> e, x0 |-> 0, y0 |-> 0]

find_particular_solution_nosign(aa, bb, cc) ==
    LET r == extended_gcd(Abs(aa), Abs(bb))
        d == r[1]
    IN IF d = 0 THEN PsRaise("ZeroDivisionError")
       ELSE IF PyMod(cc, d) # 0 THEN PsRaise("ValueError")
       ELSE LET x0 == r[2] * FloorDiv(cc, d)
                y0 == r[3] * FloorDiv(cc, d)
            IN [tag |-> "ok",
                x0 |-> IF aa < 0 THEN -x0 ELSE x0,
                y0 |-> y0]

find_particular_solution(aa, bb, cc) ==
    LET r == extended_gcd(Abs(aa), Abs(bb))
        d == r[1]
    IN IF d = 0 THEN PsRaise("ZeroDivisionError")       \* c % 0
       ELSE IF PyMod(cc, d) # 0 THEN PsRaise("ValueError")
       ELSE LET x0 == r[2] * FloorDiv(cc, d)
                y0 == r[3] * FloorDiv(cc, d)
            IN [tag |-> "ok",
                x0 |-> IF aa < 0 THEN -x0 ELSE x0,
                y0 |-> IF bb < 0 THEN -y0 ELSE y0]

\* -------------------------------------------------------- find_min_t_range
TrRaise(e) == [tag |-> e, T |-> 0]

find_min_t_range(aa, bb, cc, tx, ty) ==
    LET p == find_particular_solution(aa, bb, cc)
        d == gcd(aa, bb)
    IN IF p.tag # "ok" THEN TrRaise(p.tag)
       ELSE IF tx # None /\ ty # None
       THEN IF FloorDiv(bb, d) = 0 THEN TrRaise("ZeroDivisionError")
            ELSE LET t == FloorDiv(tx[1] - p.x0, FloorDiv(bb, d))
                 IN [tag |-> "ok", T |-> Max(Abs(t) + RangeBuffer, MinRange)]
       ELSE IF FloorDiv(bb, d) = 0 \/ FloorDiv(aa, d) = 0
       THEN TrRaise("ZeroDivisionError")
       ELSE LET t_estimate ==
                    Max(Abs(FloorDiv(p.x0, FloorDiv(bb, d))),
                        Abs(FloorDiv(p.y0, FloorDiv(aa, d)))) + RangeBuffer
            IN [tag |-> "ok", T |-> Max(t_estimate, MinRange)]

\* ------------------------------------------------------ generate_solutions
\* math.sqrt on the int x*x + y*y, kept to FracBits binary digits after the
\* point: sqrt(n) == floor(sqrt(n) * 2^FracBits).  SqrtStep carries
\* <<s, r>> with s = floor(sqrt(n) * 2^j) and r = n * 4^j - s * s.
\* For n < 4^(FracBits - 1) distinct n have distinct keys, as the doubles of
\* math.sqrt do for n below 2^50; beyond that a double no longer separates
\* neighbouring integers, and neither does this key.
RECURSIVE ISqrt(_)
ISqrt(n) ==
    IF n < 2 THEN n
    ELSE LET s == 2 * ISqrt(n \div 4)
         IN IF (s + 1) * (s + 1) <= n THEN s + 1 ELSE s

RECURSIVE SqrtStep(_, _, _)
SqrtStep(s, r, j) ==
    IF j = 0 THEN s
    ELSE IF 4 * r >= 4 * s + 1
         THEN SqrtStep(2 * s + 1, 4 * r - (4 * s + 1), j - 1)
         ELSE SqrtStep(2 * s, 4 * r, j - 1)

sqrt(n) == LET s == ISqrt(n) IN SqrtStep(s, n - s * s, FracBits)

CandidateSameSign(x0, y0, aa, bb, d, t) ==
    LET x == x0 + FloorDiv(bb, d) * t
        y == y0 + FloorDiv(aa, d) * t
    IN <<x, y, t, sqrt(x * x + y * y)>>

\* one pass of the loop body, lines 69-72: the tuple (x, y, t, dist)
Candidate(x0, y0, aa, bb, d, t) ==
    LET x == x0 + FloorDiv(bb, d) * t
        y == y0 - FloorDiv(aa, d) * t
    IN <<x, y, t, sqrt(x * x + y * y)>>

\* a list built element by element: the sequence f with its elements
\* evaluated once
List(f) == f \o <<>>

\* for t in range(-t_range, t_range + 1): solutions.append(...)
Candidates(x0, y0, aa, bb, d, T) ==
    List([i \in 1..(2 * T + 1) |-> Candidate(x0, y0, aa, bb, d, i - 1 - T)])

\* list.sort(key = dist) is stable: the element at index i of the list goes
\* behind every element with a smaller key and behind the earlier elements
\* with the same key
sort_by_dist_unstable(s) ==
    LET n == Len(s)
        rank == List([i \in 1..n |->
                    Cardinality({j \in 1..n :
                        \/ s[j][4] < s[i][4]
                        \/ s[j][4] = s[i][4] /\ j >= i})])
    IN List([r \in 1..n |-> s[CHOOSE i \in 1..n : rank[i] = r]])

sort_by_dist(s) ==
    LET n == Len(s)
        rank == List([i \in 1..n |->
                    Cardinality({j \in 1..n :
                        \/ s[j][4] < s[i][4]
                        \/ s[j][4] = s[i][4] /\ j <= i})])
    IN List([r \in 1..n |-> s[CHOOSE i \in 1..n : rank[i] = r]])

TruncateShort(s, k) == SubSeq(s, 1, Min(k - 1, Len(s)))

\* solutions[:max_solutions] for max_solutions >= 0
Truncate(s, k) == SubSeq(s, 1, Min(k, Len(s)))

generate_solutions(aa, bb, cc, T, k) ==
    LET p == find_particular_solution(aa, bb, cc)
        d == gcd(aa, bb)
    IN IF p.tag = "ValueError" THEN [tag |-> "ok", sols |-> <<>>]
       ELSE IF p.tag # "ok" THEN [tag |-> p.tag, sols |-> <<>>]
       ELSE LET sorted == Truncate(sort_by_dist(Candidates(p.x0, p.y0, aa, bb, d, T)), k)
            IN [tag |-> "ok",
                sols |-> List([i \in 1..Len(sorted) |->
                             <<sorted[i][1], sorted[i][2], sorted[i][3]>>])]

\* --------------------------------------------------- calculate_window_size
\* int(max_coord * 1.2) for an int max_coord >= 0: the product is a double
\* and int() drops its fraction
PadWindow(max_coord) == (max_coord * 12) \div 10

\* Python's s[i] on a tuple s (0-based): IndexError when i is past the end
HasIndex(s, i) == i + 1 <= Len(s)

\* max(f(s) for s in solutions) for a non-empty list of ints
MaxOver(s) == CHOOSE m \in {s[i] : i \in 1..Len(s)} :
                  \A i \in 1..Len(s) : s[i] <= m

calculate_window_size(solutions) ==
    IF solutions = <<>> THEN [tag |-> "ok", w |-> DefaultWindow]
    ELSE IF \E i \in 1..Len(solutions) :
                ~HasIndex(solutions[i], 4) \/ ~HasIndex(solutions[i], 5)
    THEN [tag |-> "IndexError", w |-> 0]
    ELSE [tag |-> "ok",
          w |-> PadWindow(MaxOver([i \in 1..Len(solutions) |->
                   Max(Abs(solutions[i][5]), Abs(solutions[i][6]))]))]

\* create_plot, lines 96-105: the symmetric window of the figure
create_plot(solutions) ==
    IF solutions = <<>> THEN [tag |-> "empty_figure", w |-> 0]
    ELSE LET x_coords == [i \in 1..Len(solutions) |-> Abs(solutions[i][1])]
             y_coords == [i \in 1..Len(solutions) |-> Abs(solutions[i][2])]
         IN [tag |-> "ok",
             w |-> PadWindow(Max(MaxOver(x_coords), MaxOver(y_coords)))]

\* ------------------------------------------------------------------- solve
\* main, lines 205-214, for a caller-chosen max_solutions: the range, the
\* divisibility check, the enumeration
GenRaise(e) == [tag |-> e, sols |-> <<>>]

solve(aa, bb, cc, k) ==
    LET r == find_min_t_range(aa, bb, cc, None, None)
        d == gcd(aa, bb)
    IN IF r.tag # "ok" THEN GenRaise(r.tag)
       ELSE IF d = 0 THEN GenRaise("ZeroDivisionError")
       ELSE IF PyMod(cc, d) # 0 THEN GenRaise("Infeasible")
       ELSE generate_solutions(aa, bb, cc, r.T, k)

\* ------------------------------------------------------------------- state
NoEgcd == [tag |-> "none", d |-> 0, x |-> 0, y |-> 0]
NoPs == PsRaise("none")
NoTr == TrRaise("none")
NoGen == GenRaise("none")
NoWin == [tag |-> "none", w |-> 0]
NoOutcome == [kind |-> "none", exc |-> "none"]

InitCall ==
    /\ pc = "ready"
    /\ op = "none"
    /\ t_range = 0
    /\ max_solutions = 0
    /\ target_x = None
    /\ target_y = None
    /\ egcd = NoEgcd
    /\ ps = NoPs
    /\ tr = NoTr
    /\ gen = NoGen
    /\ win = NoWin
    /\ outcome = NoOutcome

Init ==
    /\ a \in Coefs
    /\ b \in Coefs
    /\ c \in CVals
    /\ InitCall

InitWide ==
    /\ a \in Coefs
    /\ b \in Coefs
    /\ c \in CValsWide
    /\ InitCall

\* ----------------------------------------------------------- direct calls
CallExtendedGcd ==
    /\ pc = "ready"
    /\ LET r == extended_gcd(a, b)
       IN egcd' = [tag |-> "ok", d |-> r[1], x |-> r[2], y |-> r[3]]
    /\ op' = "extended_gcd"
    /\ pc' = "returned"
    /\ UNCHANGED <<a, b, c, t_range, max_solutions, target_x, target_y,
                   ps, tr, gen, win, outcome>>

CallFindParticularSolution ==
    /\ pc = "ready"
    /\ ps' = find_particular_solution(a, b, c)
    /\ op' = "find_particular_solution"
    /\ pc' = "returned"
    /\ UNCHANGED <<a, b, c, t_range, max_solutions, target_x, target_y,
                   egcd, tr, gen, win, outcome>>

CallGenerateSolutions ==
    /\ pc = "ready"
    /\ \E T \in 0..MaxT, k \in 1..MaxK :
          /\ t_range' = T
          /\ max_solutions' = k
          /\ gen' = generate_solutions(a, b, c, T, k)
    /\ ps' = find_particular_solution(a, b, c)          \* line 61
    /\ op' = "generate_solutions"
    /\ pc' = "returned"
    /\ UNCHANGED <<a, b, c, target_x, target_y, egcd, tr, win, outcome>>

CallCalculateWindowSize ==
    /\ pc = "returned"
    /\ op = "generate_solutions"
    /\ gen.tag = "ok"
    /\ win' = calculate_window_size(gen.sols)
    /\ op' = "calculate_window_size"
    /\ UNCHANGED <<a, b, c, pc, t_range, max_solutions, target_x, target_y,
                   egcd, ps, tr, gen, outcome>>

CallCreatePlot ==
    /\ pc = "returned"
    /\ op = "generate_solutions"
    /\ gen.tag = "ok"
    /\ win' = create_plot(gen.sols)
    /\ op' = "create_plot"
    /\ UNCHANGED <<a, b, c, pc, t_range, max_solutions, target_x, target_y,
                   egcd, ps, tr, gen, outcome>>

Targets == {None} \cup {Some(v) : v \in -MaxTarget..MaxTarget}

CallFindMinTRange ==
    /\ pc = "ready"
    /\ \E tx \in Targets, ty \in Targets :
          /\ target_x' = tx
          /\ target_y' = ty
          /\ tr' = find_min_t_range(a, b, c, tx, ty)
    /\ op' = "find_min_t_range"
    /\ pc' = "returned"
    /\ UNCHANGED <<a, b, c, t_range, max_solutions, egcd, ps, gen, win, outcome>>

CallSolve ==
    /\ pc = "ready"
    /\ \E k \in 1..MaxK :
          /\ max_solutions' = k
          /\ gen' = solve(a, b, c, k)
    /\ tr' = find_min_t_range(a, b, c, None, None)
    /\ t_range' = IF tr'.tag = "ok" THEN tr'.T ELSE t_range
    /\ op' = "solve"
    /\ pc' = "returned"
    /\ UNCHANGED <<a, b, c, target_x, target_y, egcd, ps, win, outcome>>

\* -------------------------------------------------------------------- main
\* except Exception as e: st.error(f"An error occurred: {str(e)}")
Caught(e) == [kind |-> "error_occurred", exc |-> e]

\* line 204-205: the slider value, then t_range = find_min_t_range(a, b, c)
MainEstimateRange ==
    /\ pc = "ready"
    /\ \E k \in MinDisplay..MaxDisplay : max_solutions' = k
    /\ tr' = find_min_t_range(a, b, c, None, None)
    /\ op' = "main"
    /\ IF tr'.tag = "ok"
       THEN /\ t_range' = tr'.T
            /\ pc' = "main_check"
            /\ outcome' = outcome
       ELSE /\ t_range' = t_range
            /\ pc' = "main_done"
            /\ outcome' = Caught(tr'.tag)
    /\ UNCHANGED <<a, b, c, target_x, target_y, egcd, ps, gen, win>>

\* lines 209-212: d = gcd(a, b); if c % d != 0: st.error(...); return
MainCheckDivisibility ==
    /\ pc = "main_check"
    /\ LET d == gcd(a, b)
       IN IF d = 0
          THEN /\ pc' = "main_done"
               /\ outcome' = Caught("ZeroDivisionError")
          ELSE IF PyMod(c, d) # 0
          THEN /\ pc' = "main_done"
               /\ outcome' = [kind |-> "no_integer_solutions", exc |-> "none"]
          ELSE /\ pc' = "main_enumerate"
               /\ outcome' = outcome
    /\ UNCHANGED <<a, b, c, op, t_range, max_solutions, target_x, target_y,
                   egcd, ps, tr, gen, win>>

\* line 214
MainEnumerate ==
    /\ pc = "main_enumerate"
    /\ gen' = generate_solutions(a, b, c, t_range, max_solutions)
    /\ IF gen'.tag = "ok"
       THEN /\ pc' = "main_plot"
            /\ outcome' = outcome
       ELSE /\ pc' = "main_done"
            /\ outcome' = Caught(gen'.tag)
    /\ UNCHANGED <<a, b, c, op, t_range, max_solutions, target_x, target_y,
                   egcd, ps, tr, win>>

\* lines 217-251: the plot, the table, then x0, y0 = solutions[0][:2]
MainRender ==
    /\ pc = "main_plot"
    /\ win' = create_plot(gen.sols)
    /\ pc' = "main_done"
    /\ outcome' = IF gen.sols = <<>> THEN Caught("IndexError")
                  ELSE [kind |-> "rendered", exc |-> "none"]
    /\ UNCHANGED <<a, b, c, op, t_range, max_solutions, target_x, target_y,
                   egcd, ps, tr, gen>>

\* ---------------------------------------------------------- specifications
Next ==
    \/ CallExtendedGcd
    \/ CallFindParticularSolution
    \/ CallGenerateSolutions
    \/ CallCalculateWindowSize
    \/ CallCreatePlot

Spec == Init /\ [][Next]_vars

NextSolve ==
    \/ CallFindMinTRange
    \/ CallSolve
    \/ MainEstimateRange
    \/ MainCheckDivisibility
    \/ MainEnumerate
    \/ MainRender

SpecSolve == InitWide /\ [][NextSolve]_vars

\* ------------------------------------------------- vocabulary of the claims
Divides(d, n) == \E q \in -Abs(n)..Abs(n) : q * d = n

\* the greatest common divisor of |m| and |n| by its definition; 0 for (0, 0)
GreatestCommonDivisor(m, n) ==
    IF m = 0 /\ n = 0 THEN 0
    ELSE CHOOSE d \in 1..Max(Abs(m), Abs(n)) :
            /\ Divides(d, m) /\ Divides(d, n)
            /\ \A e \in 1..Max(Abs(m), Abs(n)) :
                  Divides(e, m) /\ Divides(e, n) => e <= d

NotBothZero == a # 0 \/ b # 0

\* the equation has an integer solution: a, b not both zero, gcd divides c
Feasible == NotBothZero /\ Divides(GreatestCommonDivisor(a, b), c)

Infeasible == NotBothZero /\ ~Divides(GreatestCommonDivisor(a, b), c)

\* n / d for d # 0 dividing n
Quot(n, d) == CHOOSE q \in -Abs(n)..Abs(n) : q * d = n

Norm2(x, y) == x * x + y * y

\* the member of the solution family at parameter t, from the particular
\* solution the enumerator started from
FamilyX(t) == ps.x0 + Quot(b, GreatestCommonDivisor(a, b)) * t
FamilyY(t) == ps.y0 - Quot(a, GreatestCommonDivisor(a, b)) * t

\* ---------------------------------------------------------------------- C1
\* C1: whenever a, b are not both zero and gcd(|a|,|b|) divides c,
\* find_particular_solution(a, b, c) returns (x0, y0) with
\* a*x0 + b*y0 = c, for every combination of signs of a and b.
ParticularSolutionSolves ==
    (op = "find_particular_solution" /\ Feasible)
        => ps.tag = "ok" /\ a * ps.x0 + b * ps.y0 = c

\* a solved equation with both coefficients negative and both coordinates
\* of the particular solution non-zero: both sign corrections acted
ParticularSolutionWitness ==
    /\ op = "find_particular_solution"
    /\ a < 0 /\ b < 0 /\ c # 0
    /\ ps.tag = "ok" /\ ps.x0 # 0 /\ ps.y0 # 0

\* ---------------------------------------------------------------------- C2
\* C2: for a feasible equation every triple (x, y, t) returned by
\* generate_solutions(a, b, c, T, k) has a*x + b*y = c,
\* x = x0 + (b/d)*t, y = y0 - (a/d)*t and -T <= t <= T; on the degenerate
\* lines a = 0 and b = 0 a result is returned (no division by zero) with
\* every y equal to c/b, respectively every x equal to c/a.
EnumeratedSolutionsSolve ==
    (op = "generate_solutions" /\ Feasible)
        => /\ gen.tag = "ok"
           /\ \A i \in 1..Len(gen.sols) :
                 LET x == gen.sols[i][1]
                     y == gen.sols[i][2]
                     t == gen.sols[i][3]
                 IN /\ Len(gen.sols[i]) = 3
                    /\ a * x + b * y = c
                    /\ x = FamilyX(t)
                    /\ y = FamilyY(t)
                    /\ -t_range <= t /\ t <= t_range
                    /\ a = 0 => y * b = c
                    /\ b = 0 => x * a = c

\* a horizontal line (a = 0) enumerated over several values of t
EnumeratedSolutionsWitness ==
    /\ op = "generate_solutions"
    /\ a = 0 /\ b # 0 /\ c # 0
    /\ gen.tag = "ok"
    /\ Len(gen.sols) >= 3
    /\ \E i \in 1..Len(gen.sols) : gen.sols[i][3] = -t_range

\* ---------------------------------------------------------------------- C3
\* C3: for a feasible equation generate_solutions returns exactly the first
\* min(k, 2T+1) candidates t = -T..T in the stable order by distance: the
\* list is ordered by x^2 + y^2, equal distances appear in ascending t, and
\* every candidate that was not returned comes after the last returned one
\* in that order (so none of them is strictly closer to the origin).
Before(x1, y1, t1, x2, y2, t2) ==
    \/ Norm2(x1, y1) < Norm2(x2, y2)
    \/ Norm2(x1, y1) = Norm2(x2, y2) /\ t1 < t2

EmptyIffInfeasible ==
    (op = "generate_solutions" /\ NotBothZero)
        => /\ gen.tag = "ok"
           /\ (gen.sols = <<>>) <=> Infeasible
           /\ Infeasible => ps.tag = "ValueError"
           /\ Feasible => ps.tag = "ok"

\* an infeasible equation whose ValueError became the empty list
EmptyIffInfeasibleWitness ==
    /\ op = "generate_solutions"
    /\ Infeasible
    /\ ps.tag = "ValueError"
    /\ gen.tag = "ok" /\ gen.sols = <<>>
    /\ t_range >= 1 /\ max_solutions >= 1

\* ---------------------------------------------------------------------- C5
\* C5: for every feasible equation, solving with maxSolutions = 1 (the range
\* from find_min_t_range, then generate_solutions with k = 1) returns
\* exactly one solution, and no integer solution of a*x + b*y = c is
\* strictly closer to the origin than it.  (A closer solution would have
\* both coordinates within the distance of the returned one.)
NoCloserSolution(sx, sy) ==
    LET R == ISqrt(Norm2(sx, sy))
    IN \A x, y \in -R..R :
          a * x + b * y = c => Norm2(x, y) >= Norm2(sx, sy)

SolveOneReturnsNearest ==
    (op = "solve" /\ max_solutions = 1 /\ Feasible)
        => /\ gen.tag = "ok"
           /\ Len(gen.sols) = 1
           /\ NoCloserSolution(gen.sols[1][1], gen.sols[1][2])

\* the same statement on the lines that are neither horizontal nor
\* vertical, where find_min_t_range returns
SolveOneReturnsNearestOblique ==
    (op = "solve" /\ max_solutions = 1 /\ Feasible /\ a # 0 /\ b # 0)
        => /\ gen.tag = "ok"
           /\ Len(gen.sols) = 1
           /\ NoCloserSolution(gen.sols[1][1], gen.sols[1][2])

\* ---------------------------------------------------------------------- C6
\* C6: for every feasible equation, with or without a target point,
\* find_min_t_range returns an integer T >= 50, also when a = 0 or b = 0
\* (no division-by-zero fault).
RangeAtLeastFloor ==
    (op = "find_min_t_range" /\ Feasible)
        => tr.tag = "ok" /\ tr.T >= MinRange

\* ---------------------------------------------------------------------- C7
\* C7: for all integers a, b of any sign, extended_gcd(a, b) returns
\* (d, x, y) with d = gcd(|a|,|b|), d >= 0 and a*x + b*y = d.
BezoutNonNegative ==
    op = "extended_gcd"
        => /\ egcd.tag = "ok"
           /\ egcd.d = GreatestCommonDivisor(a, b)
           /\ egcd.d >= 0
           /\ a * egcd.x + b * egcd.y = egcd.d

\* ---------------------------------------------------------------------- C8
\* C8: when a = b = 0 nothing faults on a division by zero:
\* find_particular_solution(0, 0, c) reports Infeasible (ValueError) for
\* c # 0 and returns a solution for c = 0; generate_solutions(0, 0, c, T, k)
\* returns the empty list for c # 0 and solutions of 0*x + 0*y = 0 for c = 0.
BothZeroResolved ==
    (a = 0 /\ b = 0)
        => /\ op = "find_particular_solution"
                => IF c # 0 THEN ps.tag = "ValueError" ELSE ps.tag = "ok"
           /\ op = "generate_solutions"
                => /\ gen.tag = "ok"
                   /\ (gen.sols = <<>>) <=> (c # 0)

\* ---------------------------------------------------------------------- C9
\* C9: on a non-empty list of (x, y, t) solutions produced by
\* generate_solutions, calculate_window_size returns a positive window
\* equal to 1.2 * max(|x|, |y|) truncated to an integer, never smaller than
\* the largest absolute coordinate; on the empty list it returns 10.
LargestCoordinate(S) ==
    LET coords == {Abs(S[i][1]) : i \in 1..Len(S)}
                     \cup {Abs(S[i][2]) : i \in 1..Len(S)}
    IN CHOOSE m \in coords : \A n \in coords : n <= m

WindowCoversSolutions ==
    op = "calculate_window_size"
        => /\ win.tag = "ok"
           /\ IF gen.sols = <<>>
              THEN win.w = DefaultWindow
              ELSE /\ win.w > 0
                   /\ 10 * win.w <= 12 * LargestCoordinate(gen.sols)
                   /\ 12 * LargestCoordinate(gen.sols) < 10 * (win.w + 1)
                   /\ win.w >= LargestCoordinate(gen.sols)

\* --------------------------------------------------------------------- C10
\* C10: when main has finished on an input with a, b not both zero and
\* gcd(a, b) not dividing c, it has reported 'No integer solutions exist'
\* from the divisibility check, not 'An error occurred' from the catch-all
\* handler: nothing before the divisibility check fails first.
InfeasibleReportedByCheck ==
    (pc = "main_done" /\ Infeasible)
        => outcome.kind = "no_integer_solutions"

====
